---------------------------- MODULE Spec2Model ----------------------------
(***************************************************************************)
(* Gig Worker Analytics Hub: the Streamlit script src/app.py and its       *)
(* advisory helper src/granite_helper.py as a state machine.               *)
(*                                                                         *)
(* One step of the machine is one run of main(): Streamlit reruns the      *)
(* whole script for every user interaction, with at most one button or     *)
(* chat input triggered per run.  The state that survives a run is         *)
(* st.session_state (data, messages), the two process-wide caches          *)
(* (st.cache_resource for GigAI, st.cache_data for the sample table) and   *)
(* the process environment.  The variable run records what the last run    *)
(* was given and what it showed.                                            *)
(*                                                                         *)
(* Text is a sequence of one-character strings, so that strip, lower,      *)
(* replace and startswith are computed and not assumed.                    *)
(***************************************************************************)
EXTENDS Integers, Sequences, FiniteSets, TLC

VARIABLES
    env,            \* os.environ: the three IBM_GRANITE_* variables
    gigai_cache,    \* st.cache_resource entry of init_gigai()
    sample_cache,   \* st.cache_data entry of load_sample_data()
    session_keys,   \* the keys present in st.session_state
    data,           \* st.session_state.data
    messages,       \* st.session_state.messages
    run             \* the last run of main(): its inputs and what it showed

vars == <<env, gigai_cache, sample_cache, session_keys, data, messages, run>>

-----------------------------------------------------------------------------
(* Bounds of the model *)

\* most rows of an uploaded CSV file
MaxRows == 2
\* most messages the transcript is followed for
MaxMessages == 2
\* number of distinct states of numpy's unseeded global generator
MaxSeed == 1

-----------------------------------------------------------------------------
(* Python values *)

\* Python's None where a table or an object is expected
None == [isNone |-> TRUE]

\* Python's None where a str is expected (os.getenv of an unset variable)
NoneStr == "<None>"

Max(a, b) == IF a >= b THEN a ELSE b

RECURSIVE SumSeq(_)
SumSeq(s) == IF s = <<>> THEN 0 ELSE Head(s) + SumSeq(Tail(s))

-----------------------------------------------------------------------------
(* str methods used by the program *)

Whitespace == {" ", "\t", "\n"}

UpperToLower ==
    [c \in {"A","B","C","D","E","F","G","H","I","J","K","L","M",
             "N","O","P","Q","R","S","T","U","V","W","X","Y","Z"} |->
        CASE c = "A" -> "a" [] c = "B" -> "b" [] c = "C" -> "c" [] c = "D" -> "d"
          [] c = "E" -> "e" [] c = "F" -> "f" [] c = "G" -> "g" [] c = "H" -> "h"
          [] c = "I" -> "i" [] c = "J" -> "j" [] c = "K" -> "k" [] c = "L" -> "l"
          [] c = "M" -> "m" [] c = "N" -> "n" [] c = "O" -> "o" [] c = "P" -> "p"
          [] c = "Q" -> "q" [] c = "R" -> "r" [] c = "S" -> "s" [] c = "T" -> "t"
          [] c = "U" -> "u" [] c = "V" -> "v" [] c = "W" -> "w" [] c = "X" -> "x"
          [] c = "Y" -> "y" [] c = "Z" -> "z"]

RECURSIVE lstrip(_)
lstrip(s) ==
    IF s # <<>> /\ Head(s) \in Whitespace THEN lstrip(Tail(s)) ELSE s

RECURSIVE rstrip(_)
rstrip(s) ==
    IF s # <<>> /\ s[Len(s)] \in Whitespace
    THEN rstrip(SubSeq(s, 1, Len(s) - 1))
    ELSE s

\* str.strip()
strip(s) == rstrip(lstrip(s))

\* str.lower()
lower(s) ==
    [i \in 1..Len(s) |->
        IF s[i] \in DOMAIN UpperToLower THEN UpperToLower[s[i]] ELSE s[i]]

\* str.replace(' ', '_')
replace_space(s) == [i \in 1..Len(s) |-> IF s[i] = " " THEN "_" ELSE s[i]]

SeqsUpTo(S, n) == UNION {[1..k -> S] : k \in 0..n}

\* str.startswith(prefix)
startswith(s, prefix) ==
    Len(s) >= Len(prefix) /\ SubSeq(s, 1, Len(prefix)) = prefix

\* col.strip().lower().replace(' ', '_')
normalize_col(col) == replace_space(lower(strip(col)))

-----------------------------------------------------------------------------
(* Calendar dates, as pandas Timestamps carry them *)

IsLeap(y) == (y % 4 = 0 /\ y % 100 # 0) \/ y % 400 = 0

DaysInMonth(y, m) ==
    IF m = 2 THEN (IF IsLeap(y) THEN 29 ELSE 28)
    ELSE IF m \in {4, 6, 9, 11} THEN 30 ELSE 31

IsValidDate(y, m, d) == m \in 1..12 /\ d \in 1..DaysInMonth(y, m)

\* a cell holding a pandas Timestamp
Timestamp(y, m, d) == [kind |-> "ts", y |-> y, m |-> m, d |-> d]

\* the missing-date sentinel pandas.NaT
NaT == [kind |-> "NaT", y |-> 0, m |-> 0, d |-> 0]

\* a CSV cell holding the text "YYYY-MM-DD"
IsoText(y, m, d) == [kind |-> "text", y |-> y, m |-> m, d |-> d]

\* a CSV cell holding text that is no date at all ("tomorrow")
JunkText == [kind |-> "junk", y |-> 0, m |-> 0, d |-> 0]

\* the Timestamp one day after t
NextDay(t) ==
    IF t.d < DaysInMonth(t.y, t.m) THEN Timestamp(t.y, t.m, t.d + 1)
    ELSE IF t.m < 12 THEN Timestamp(t.y, t.m + 1, 1)
    ELSE Timestamp(t.y + 1, 1, 1)

\* pd.date_range(start, periods=periods): daily frequency
RECURSIVE date_range(_, _)
date_range(start, periods) ==
    IF periods = 0 THEN <<>>
    ELSE <<start>> \o date_range(NextDay(start), periods - 1)

\* to_datetime taking any text of the shape YYYY-MM-DD for a date: a mutant
\* of to_datetime_cell
to_datetime_cell_any_iso(c) ==
    IF c.kind = "ts" THEN c
    ELSE IF c.kind = "text" THEN Timestamp(c.y, c.m, c.d)
    ELSE NaT

\* pd.to_datetime(..., errors='coerce') on one cell: a value that does not
\* parse becomes NaT instead of raising
to_datetime_cell(c) ==
    IF c.kind = "ts" THEN c
    ELSE IF c.kind = "text" /\ IsValidDate(c.y, c.m, c.d)
         THEN Timestamp(c.y, c.m, c.d)
    ELSE NaT

-----------------------------------------------------------------------------
(* DataFrames: column labels and rows of cells, cell j of a row under label j *)

DataFrame(columns, rows) == [columns |-> columns, rows |-> rows]

Range(s) == {s[i] : i \in DOMAIN s}

\* the positions of the columns labelled name
ColIndexes(df, name) == {j \in DOMAIN df.columns : df.columns[j] = name}

\* df[name] for a label that occurs once: the column's cells
Column(df, name) ==
    LET j == CHOOSE k \in ColIndexes(df, name) : TRUE
    IN  [i \in DOMAIN df.rows |-> df.rows[i][j]]

\* df[name] = cells, for a label that occurs once
SetColumn(df, name, cells) ==
    LET j == CHOOSE k \in ColIndexes(df, name) : TRUE
    IN  DataFrame(df.columns,
                  [i \in DOMAIN df.rows |-> [df.rows[i] EXCEPT ![j] = cells[i]]])

c_date == <<"d","a","t","e">>
c_platform == <<"p","l","a","t","f","o","r","m">>
c_hours == <<"h","o","u","r","s">>
c_earnings == <<"e","a","r","n","i","n","g","s">>
c_miles == <<"m","i","l","e","s">>

-----------------------------------------------------------------------------
(* validate_data, src/app.py 77-90 *)

\* required = {"date", "platform", "hours", "earnings"}
required == {c_date, c_platform, c_hours, c_earnings}

\* st.error(f"Data validation error: {str(e)}"): named is the set the
\* message renders between braces, empty when the message holds none
ValidationError(text, named) ==
    [call |-> "error", prefix |-> "Data validation error: ",
     text |-> text, named |-> named, body |-> <<>>]

\* validate_data without the isnull check: a mutant of validate_data
validate_data_keeps_NaT(df) ==
    LET cols == [j \in DOMAIN df.columns |-> normalize_col(df.columns[j])]
        df1 == DataFrame(cols, df.rows)
        missing == required \ Range(cols)
    IN  IF missing # {}
        THEN [df |-> None, shown |-> <<ValidationError("Missing columns: ", missing)>>]
        ELSE IF Cardinality(ColIndexes(df1, c_date)) > 1
        THEN [df |-> None,
              shown |-> <<ValidationError("cannot assemble with duplicate keys", {})>>]
        ELSE LET parsed == [i \in DOMAIN df1.rows |->
                               to_datetime_cell(Column(df1, c_date)[i])]
             IN  [df |-> SetColumn(df1, c_date, parsed), shown |-> <<>>]

\* validate_data reporting every required column: a mutant of validate_data
validate_data_names_all(df) ==
    LET cols == [j \in DOMAIN df.columns |-> normalize_col(df.columns[j])]
        df1 == DataFrame(cols, df.rows)
        missing == required \ Range(cols)
    IN  IF missing # {}
        THEN [df |-> None, shown |-> <<ValidationError("Missing columns: ", required)>>]
        ELSE IF Cardinality(ColIndexes(df1, c_date)) > 1
        THEN [df |-> None,
              shown |-> <<ValidationError("cannot assemble with duplicate keys", {})>>]
        ELSE LET parsed == [i \in DOMAIN df1.rows |->
                               to_datetime_cell(Column(df1, c_date)[i])]
             IN  IF \E i \in DOMAIN parsed : parsed[i] = NaT
                 THEN [df |-> None,
                       shown |-> <<ValidationError("Invalid date format in date column", {})>>]
                 ELSE [df |-> SetColumn(df1, c_date, parsed), shown |-> <<>>]

\* validate_data(df): the returned frame (None on failure) and what it showed.
\*   line 79      the labels are normalized in place
\*   lines 80-83  missing required labels raise ValueError
\*   line 84      df['date'] with the label occurring twice is a DataFrame, on
\*                which pd.to_datetime raises ValueError
\*   lines 85-86  any NaT raises ValueError
\*   lines 88-90  every exception is shown with st.error and None returned
validate_data(df) ==
    LET cols == [j \in DOMAIN df.columns |-> normalize_col(df.columns[j])]
        df1 == DataFrame(cols, df.rows)
        missing == required \ Range(cols)
    IN  IF missing # {}
        THEN [df |-> None, shown |-> <<ValidationError("Missing columns: ", missing)>>]
        ELSE IF Cardinality(ColIndexes(df1, c_date)) > 1
        THEN [df |-> None,
              shown |-> <<ValidationError("cannot assemble with duplicate keys", {})>>]
        ELSE LET parsed == [i \in DOMAIN df1.rows |->
                               to_datetime_cell(Column(df1, c_date)[i])]
             IN  IF \E i \in DOMAIN parsed : parsed[i] = NaT
                 THEN [df |-> None,
                       shown |-> <<ValidationError("Invalid date format in date column", {})>>]
                 ELSE [df |-> SetColumn(df1, c_date, parsed), shown |-> <<>>]

-----------------------------------------------------------------------------
(* load_sample_data, src/app.py 66-75 *)

\* periods=90
SamplePeriods == 90

\* Element i of the k-th array drawn from numpy's global generator, reduced to
\* 0..n-1.  The generator is never seeded, so its state (seed) is the
\* environment's choice; element 1 of seed 0 is the lowest draw and element 2
\* the highest.
Draw(seed, k, i, n) == (seed * (k + 1) + (i - 1) * (n - 1)) % n

\* randint over the closed interval low..high: a mutant of randint
randint_closed(low, high, size, seed, k) ==
    [i \in 1..size |-> low + Draw(seed, k, i, high - low + 1)]

\* np.random.randint(low, high, size=size): integers of low..high-1
randint(low, high, size, seed, k) ==
    [i \in 1..size |-> low + Draw(seed, k, i, high - low)]

\* np.random.choice(labels, size=size)
choice(labels, size, seed, k) ==
    [i \in 1..size |-> labels[1 + Draw(seed, k, i, Len(labels))]]

\* np.random.uniform(low, high, size=size).round(1), in tenths: a float of
\* [low, high) rounded to one decimal is one of 10*low..10*high tenths
uniform_round1(low, high, size, seed, k) ==
    [i \in 1..size |-> 10 * low + Draw(seed, k, i, 10 * (high - low) + 1)]

\* the body of load_sample_data, run with the generator in state seed
make_sample_data(seed) ==
    LET dates == date_range(Timestamp(2023, 1, 1), SamplePeriods)
        earnings == randint(50, 200, SamplePeriods, seed, 1)
        hours == randint(2, 8, SamplePeriods, seed, 2)
        platform == choice(<<"Uber", "DoorDash", "Lyft">>, SamplePeriods, seed, 3)
        miles == uniform_round1(5, 50, SamplePeriods, seed, 4)
    IN  DataFrame(<<c_date, c_earnings, c_hours, c_platform, c_miles>>,
                  [i \in 1..SamplePeriods |->
                      <<dates[i], earnings[i], hours[i], platform[i], miles[i]>>])

\* the tables the generator can produce, one per generator state
SampleOf == [seed \in 0..(MaxSeed - 1) |-> make_sample_data(seed)]

\* The st.cache_data entry of load_sample_data: None before the first call,
\* then the result of the body, kept as the generator state that produced it
CacheEntry(seed) == [seed |-> seed]

\* load_sample_data() under @st.cache_data: the body runs on the first call
\* of the process and every later call returns a copy of that result
load_sample_data(cache, seed) ==
    IF cache # None
    THEN [df |-> SampleOf[cache.seed], cache |-> cache]
    ELSE [df |-> SampleOf[seed], cache |-> CacheEntry(seed)]

-----------------------------------------------------------------------------
(* Uploaded files: what st.file_uploader hands to pd.read_csv *)

\* header rows.  Cells follow the layout of the sample download: date,
\* earnings, hours, platform, miles, and a second date-like cell
Headers ==
    { <<c_date, c_earnings, c_hours, c_platform, c_miles>>,
      << <<" ","D","a","t","e"," ">>, <<"E","A","R","N","I","N","G","S">>,
         <<"H","o","u","r","s","\t">>, <<"P","l","a","t","f","o","r","m">> >>,
      << <<"d","a","y">>, c_earnings, c_hours >>,
      << c_date, <<"e","a","r","n"," ","i","n","g","s">>,
         <<"t","o","t","a","l"," ","h","o","u","r","s">>, c_platform >>,
      << c_date, c_earnings, c_hours, c_platform, c_miles, <<"D","a","t","e">> >> }

\* the text of a date cell: a date, a day February does not have, no date
DateTexts == <<IsoText(2024, 2, 29), IsoText(2023, 2, 29), JunkText>>

\* the date columns of the uploads: up to MaxRows cells, the dates first,
\* then the impossible days, then the texts that are no dates
DateColumns ==
    { [i \in DOMAIN ks |-> DateTexts[ks[i]]] :
        ks \in {k \in SeqsUpTo(DOMAIN DateTexts, MaxRows) :
                    \A i \in 1..(Len(k) - 1) : k[i] <= k[i + 1]} }

\* earnings and hours of the i-th data row of an upload
UploadEarnings(i) == IF i % 2 = 1 THEN 25 ELSE 100
UploadHours(i) == IF i % 2 = 1 THEN 0 ELSE 4

\* the i-th data row of a file with Len(header) columns and date text t
UploadRow(header, i, t) ==
    SubSeq(<<t, UploadEarnings(i), UploadHours(i), "Uber", 120, t>>, 1, Len(header))

CsvFile(header, texts) ==
    [readable |-> TRUE, header |-> header,
     rows |-> [i \in DOMAIN texts |-> UploadRow(header, i, texts[i])]]

\* a file of no bytes: pd.read_csv raises EmptyDataError
EmptyFile == [readable |-> FALSE, header |-> <<>>, rows |-> <<>>]

\* uploaded_file is None: nothing selected
NoFile == [readable |-> FALSE, header |-> <<>>, rows |-> <<>>, absent |-> TRUE]

Files ==
    {CsvFile(h, ts) : h \in Headers, ts \in DateColumns}
        \cup {EmptyFile}

\* pd.read_csv(uploaded_file) of a readable file
read_csv(f) == DataFrame(f.header, f.rows)

\* validate_data(pd.read_csv(f)) for every readable file
ValidatedOf == [f \in Files \ {EmptyFile} |-> validate_data(read_csv(f))]

-----------------------------------------------------------------------------
(* What a run shows: the calls of st.error, st.success, st.warning,         *)
(* st.markdown and st.chat_message, in order.  text is a fixed literal,     *)
(* body is computed text, named the set a message renders.                  *)

Event(call, prefix, text, body) ==
    [call |-> call, prefix |-> prefix, text |-> text, named |-> {}, body |-> body]

t_Error == <<"E","r","r","o","r">>

-----------------------------------------------------------------------------
(* GigAI, src/granite_helper.py *)

EnvNames == {"IBM_GRANITE_API_KEY", "IBM_GRANITE_URL", "IBM_GRANITE_PROJECT_ID"}

\* a variable is unset, set to the empty string, or set to a value
EnvValues == {NoneStr, "", "value"}

\* os.getenv(name, default)
getenv(e, name, default) == IF e[name] = NoneStr THEN default ELSE e[name]

\* truth value of an Optional[str]
Truthy(v) == v # NoneStr /\ v # ""

\* GigAI.__init__ without the credentials check: a mutant of GigAI_init
GigAI_init_unchecked(e, model_ok) ==
    IF ~model_ok
    THEN [raised |-> TRUE, exc |-> "RuntimeError", obj |-> None]
    ELSE [raised |-> FALSE, exc |-> "",
          obj |-> [credentials |->
                      [apikey |-> getenv(e, "IBM_GRANITE_API_KEY", NoneStr),
                       url |-> getenv(e, "IBM_GRANITE_URL",
                                      "https://us-south.ml.cloud.ibm.com")],
                   project_id |-> getenv(e, "IBM_GRANITE_PROJECT_ID", NoneStr)]]

\* GigAI.__init__, lines 10-34: model_ok is whether Model(...) constructs;
\* every exception is raised again as RuntimeError
GigAI_init(e, model_ok) ==
    LET credentials ==
            [apikey |-> getenv(e, "IBM_GRANITE_API_KEY", NoneStr),
             url |-> getenv(e, "IBM_GRANITE_URL", "https://us-south.ml.cloud.ibm.com")]
        project_id == getenv(e, "IBM_GRANITE_PROJECT_ID", NoneStr)
    IN  IF ~(Truthy(credentials.apikey) /\ Truthy(credentials.url))
           \/ ~Truthy(project_id)
        THEN [raised |-> TRUE, exc |-> "RuntimeError", obj |-> None]
        ELSE IF ~model_ok
        THEN [raised |-> TRUE, exc |-> "RuntimeError", obj |-> None]
        ELSE [raised |-> FALSE, exc |-> "",
              obj |-> [credentials |-> credentials, project_id |-> project_id]]

\* init_gigai() under @st.cache_resource: a constructed GigAI is kept for the
\* process; a raising construction caches nothing
init_gigai(cache, e, model_ok) ==
    IF cache # None THEN [raised |-> FALSE, exc |-> "", obj |-> cache]
    ELSE GigAI_init(e, model_ok)

\* the attributes class GigAI defines
GigAI_methods == {"__init__", "generate_judge_ready_recommendations", "answer_question"}

\* what self.model.generate_text(prompt) does this time: it raises, with
\* str(e) = body, or returns body
Remotes ==
    { [raises |-> FALSE, body |-> <<" ", "O", "K", "\n", "-", " ", "<", "\n">>],
      [raises |-> FALSE, body |-> <<" ">> \o t_Error \o <<"s">>],
      [raises |-> TRUE,  body |-> <<"5","0","3">>] }

\* the remote service is not called in the run
NoRemote == [raises |-> FALSE, body |-> <<>>]

\* a quotient as the program computes it: finite num/den, the inf or nan of a
\* numpy division by zero, or the ZeroDivisionError of a Python one
Rate(kind, num, den) == [kind |-> kind, num |-> num, den |-> den]

Earnings(df) == SumSeq(Column(df, c_earnings))
Hours(df) == SumSeq(Column(df, c_hours))

\* granite_helper.py line 56: data['earnings'].sum()/data['hours'].sum().
\* The sums of a frame with rows are numpy integers; those of a frame
\* without rows (object columns) are the Python int 0
prompt_hourly(df) ==
    IF Len(df.rows) = 0 THEN Rate("ZeroDivisionError", 0, 0)
    ELSE IF Hours(df) = 0 THEN Rate("nonfinite", Earnings(df), 0)
    ELSE Rate("finite", Earnings(df), Hours(df))

\* GigAI.generate_judge_ready_recommendations, lines 36-83
generate_judge_ready_recommendations(df, remote) ==
    IF prompt_hourly(df).kind = "ZeroDivisionError"
    THEN t_Error \o <<" ","g","e","n","e","r","a","t","i","n","g"," ",
                      "r","e","p","o","r","t",":"," ">>
                 \o <<"d","i","v","i","s","i","o","n">>
    ELSE IF remote.raises
    THEN t_Error \o <<" ","g","e","n","e","r","a","t","i","n","g"," ",
                      "r","e","p","o","r","t",":"," ">> \o remote.body
    ELSE strip(remote.body)

\* GigAI.answer_question, lines 85-115
answer_question(question, remote) ==
    IF remote.raises
    THEN t_Error \o <<" ","g","e","n","e","r","a","t","i","n","g"," ",
                      "r","e","s","p","o","n","s","e",":"," ">> \o remote.body
    ELSE strip(remote.body)

\* gig_ai.<name>(arg): attribute lookup on the GigAI instance, then the call
CallGigAI(name, arg, remote) ==
    IF name \notin GigAI_methods
    THEN [raised |-> TRUE, exc |-> "AttributeError", value |-> <<>>]
    ELSE IF name = "generate_judge_ready_recommendations"
    THEN [raised |-> FALSE, exc |-> "",
          value |-> generate_judge_ready_recommendations(arg, remote)]
    ELSE [raised |-> FALSE, exc |-> "", value |-> answer_question(arg, remote)]

-----------------------------------------------------------------------------
(* display_recommendations, src/app.py 48-60 *)

\* html.escape(s)
html_escape(s) ==
    [i \in 1..Len(s) |->
        CASE s[i] = "&" -> "&amp;"
          [] s[i] = "<" -> "&lt;"
          [] s[i] = ">" -> "&gt;"
          [] s[i] = "\"" -> "&quot;"
          [] s[i] = "'" -> "&#x27;"
          [] OTHER -> s[i]]

\* .replace("\n- ", "<br>* ").replace("\n", "<br>")
RECURSIVE replace_breaks(_)
replace_breaks(s) ==
    IF s = <<>> THEN <<>>
    ELSE IF startswith(s, <<"\n", "-", " ">>)
    THEN <<"<br>", "*", " ">> \o replace_breaks(SubSeq(s, 4, Len(s)))
    ELSE IF Head(s) = "\n" THEN <<"<br>">> \o replace_breaks(Tail(s))
    ELSE <<Head(s)>> \o replace_breaks(Tail(s))

display_recommendations(advice) ==
    IF startswith(advice, t_Error)
    THEN <<Event("error", "", "", advice)>>
    ELSE <<Event("markdown", "recommendation-box", "",
                 replace_breaks(html_escape(advice)))>>

-----------------------------------------------------------------------------
(* The dashboard figures, src/app.py 140-143 *)

\* hourly = data['earnings'].sum() / max(1, data['hours'].sum())
dashboard_hourly(df) == Rate("finite", Earnings(df), Max(1, Hours(df)))

\* two figures show the same value
SameRate(a, b) ==
    /\ a.kind = "finite"
    /\ b.kind = "finite"
    /\ a.num * b.den = b.num * a.den

-----------------------------------------------------------------------------
(* main, src/app.py 92-181: one run of the script *)

\* what a run is given: the widget that triggered it ("none" for a plain
\* rerun), the widgets' values, and what the remote service would answer
Given(trigger, use_sample, uploaded_file, prompt, remote) ==
    [trigger |-> trigger, use_sample |-> use_sample,
     uploaded_file |-> uploaded_file, prompt |-> prompt, remote |-> remote]

\* what the record of a run keeps of the uploaded file: whether there was
\* one, its header row and the distinct texts of its date cells
FileSeen(f) ==
    [absent |-> "absent" \in DOMAIN f, readable |-> f.readable, header |-> f.header,
     date_texts |-> {f.rows[i][1] : i \in DOMAIN f.rows}]

\* the record of a run: exception is the type of the exception that left
\* main ("" when it returned), rendered the widgets it drew before that
RunOf(given, exception, rendered, shown, validate_returned) ==
    [given |-> [given EXCEPT !.uploaded_file = FileSeen(given.uploaded_file)],
     exception |-> exception, rendered |-> rendered,
     shown |-> shown, validate_returned |-> validate_returned]

\* the values the variables take at the end of a run
Outcome(gig, sample, keys, d, msgs, r) ==
    [gigai_cache |-> gig, sample_cache |-> sample, session_keys |-> keys,
     data |-> d, messages |-> msgs, run |-> r]

\* lines 110-125 storing whatever validate_data returned: a mutant of
\* load_data_button
load_data_button_stores_None(given, data0, cache, seed) ==
    IF given.trigger # "load"
    THEN [data |-> data0, sample_cache |-> cache, shown |-> <<>>,
          validate_returned |-> "not called"]
    ELSE IF given.use_sample
    THEN [data |-> load_sample_data(cache, seed).df,
          sample_cache |-> load_sample_data(cache, seed).cache,
          shown |-> <<Event("success", "", "Sample data loaded!", <<>>)>>,
          validate_returned |-> "not called"]
    ELSE IF "absent" \notin DOMAIN given.uploaded_file
    THEN IF ~given.uploaded_file.readable
         THEN [data |-> data0, sample_cache |-> cache,
               shown |-> <<Event("error", "Error loading data: ",
                                 "No columns to parse from file", <<>>)>>,
               validate_returned |-> "not called"]
         ELSE LET v == ValidatedOf[given.uploaded_file]
              IN  [data |-> v.df, sample_cache |-> cache, shown |-> v.shown,
                   validate_returned |-> IF v.df = None THEN "None" ELSE "DataFrame"]
    ELSE [data |-> data0, sample_cache |-> cache,
          shown |-> <<Event("warning", "",
                            "Please upload a file or use sample data", <<>>)>>,
          validate_returned |-> "not called"]

\* lines 110-125, the "Load Data" button: the stored Record Set, the sample
\* cache, what was shown and what validate_data returned
load_data_button(given, data0, cache, seed) ==
    IF given.trigger # "load"
    THEN [data |-> data0, sample_cache |-> cache, shown |-> <<>>,
          validate_returned |-> "not called"]
    ELSE IF given.use_sample
    THEN [data |-> load_sample_data(cache, seed).df,
          sample_cache |-> load_sample_data(cache, seed).cache,
          shown |-> <<Event("success", "", "Sample data loaded!", <<>>)>>,
          validate_returned |-> "not called"]
    ELSE IF "absent" \notin DOMAIN given.uploaded_file
    THEN IF ~given.uploaded_file.readable
         THEN [data |-> data0, sample_cache |-> cache,
               shown |-> <<Event("error", "Error loading data: ",
                                 "No columns to parse from file", <<>>)>>,
               validate_returned |-> "not called"]
         ELSE LET v == ValidatedOf[given.uploaded_file]
              IN  IF v.df # None
                  THEN [data |-> v.df, sample_cache |-> cache,
                        shown |-> v.shown \o
                            <<Event("success", "", "Data loaded successfully!", <<>>)>>,
                        validate_returned |-> "DataFrame"]
                  ELSE [data |-> data0, sample_cache |-> cache, shown |-> v.shown,
                        validate_returned |-> "None"]
    ELSE [data |-> data0, sample_cache |-> cache,
          shown |-> <<Event("warning", "",
                            "Please upload a file or use sample data", <<>>)>>,
          validate_returned |-> "not called"]

\* lines 174-175: the transcript as drawn
chat_messages(msgs) ==
    [i \in DOMAIN msgs |-> Event("chat_message", msgs[i].role, "", msgs[i].content)]

Message(role, content) == [role |-> role, content |-> content]

AllWidgets == {"sidebar", "advice_button", "chat_input"}

\* lines 167-181, reached with a Record Set d loaded
advisor(given, gig, sample, keys, d, msgs, shown, validated) ==
    IF given.trigger = "advice"
    THEN LET call == CallGigAI("predict_schedule", d, given.remote)
         IN  IF call.raised
             THEN Outcome(gig, sample, keys, d, msgs,
                          RunOf(given, call.exc, {"sidebar", "advice_button"},
                                shown, validated))
             ELSE Outcome(gig, sample, keys, d, msgs,
                          RunOf(given, "", AllWidgets,
                                shown \o display_recommendations(call.value)
                                      \o chat_messages(msgs), validated))
    ELSE IF given.trigger = "chat"
    THEN LET msgs1 == Append(msgs, Message("user", given.prompt))
             call == CallGigAI("ask_question", given.prompt, given.remote)
         IN  IF call.raised
             THEN Outcome(gig, sample, keys, d, msgs1,
                          RunOf(given, call.exc, AllWidgets,
                                shown \o chat_messages(msgs), validated))
             ELSE LET msgs2 == Append(msgs1, Message("assistant", call.value))
                  \* st.rerun(): the script runs again at once, untriggered
                  IN  Outcome(gig, sample, keys, d, msgs2,
                              RunOf(given, "", AllWidgets, chat_messages(msgs2),
                                    validated))
    ELSE Outcome(gig, sample, keys, d, msgs,
                 RunOf(given, "", AllWidgets, shown \o chat_messages(msgs),
                       validated))

\* lines 136-165, the summary and the charts of a Record Set d: the type of
\* the exception they raise, "" when they draw.  The weekly resample of a
\* table without rows sums object columns, which numeric_only=True may drop,
\* and px.line then finds no "earnings" column: whether it raises is left to
\* the installed pandas and plotly (charts_ok)
dashboard(d, charts_ok) ==
    IF Len(d.rows) = 0 /\ ~charts_ok THEN "ValueError" ELSE ""

\* main(): model_ok, seed and charts_ok are the environment's part in a
\* first construction of GigAI, a first generation of the sample table and
\* the drawing of the charts
main(given, model_ok, seed, charts_ok) ==
    LET gig == init_gigai(gigai_cache, env, model_ok)
    IN  IF gig.raised
        THEN Outcome(gigai_cache, sample_cache, session_keys, data, messages,
                     RunOf(given, gig.exc, {}, <<>>, "not called"))
        ELSE
        LET data0 == IF "data" \in session_keys THEN data ELSE None
            messages0 == IF "messages" \in session_keys THEN messages ELSE <<>>
            keys1 == session_keys \cup {"data", "messages"}
            load == load_data_button(given, data0, sample_cache, seed)
            \* line 128: the download expander loads the sample on every run
            sample1 == load_sample_data(load.sample_cache, seed).cache
        IN  IF load.data = None
            THEN Outcome(gig.obj, sample1, keys1, load.data, messages0,
                         RunOf(given, "", {"sidebar"}, load.shown,
                               load.validate_returned))
            ELSE IF dashboard(load.data, charts_ok) # ""
            THEN Outcome(gig.obj, sample1, keys1, load.data, messages0,
                         RunOf(given, dashboard(load.data, charts_ok), {"sidebar"},
                               load.shown, load.validate_returned))
            ELSE advisor(given, gig.obj, sample1, keys1, load.data, messages0,
                         load.shown, load.validate_returned)

-----------------------------------------------------------------------------
(* The state machine *)

Prompts == { <<"h","i","?">> }

NoRun == RunOf(Given("", FALSE, NoFile, <<>>, NoRemote), "", {}, <<>>, "not called")

Init ==
    /\ env \in [EnvNames -> EnvValues]
    /\ gigai_cache = None
    /\ sample_cache = None
    /\ session_keys = {}
    /\ data = None
    /\ messages = <<>>
    /\ run = NoRun

\* the variables take the values main leaves
Becomes(o) ==
    /\ gigai_cache' = o.gigai_cache
    /\ sample_cache' = o.sample_cache
    /\ session_keys' = o.session_keys
    /\ data' = o.data
    /\ messages' = o.messages
    /\ run' = o.run
    /\ UNCHANGED env

ModelOks == IF gigai_cache = None THEN BOOLEAN ELSE {TRUE}
Seeds == IF sample_cache = None THEN 0..(MaxSeed - 1) ELSE {0}

\* the charts' part matters only when the table drawn has no rows: file f
\* is stored and has none, or f is not stored and the stored table has none
ChartOks(f) ==
    LET stored == f.readable /\ ValidatedOf[f].df # None
    IN  IF \/ stored /\ f.rows = <<>>
           \/ ~stored /\ data # None /\ data.rows = <<>>
        THEN BOOLEAN ELSE {TRUE}

\* the page is opened or reloaded, or a checkbox or the uploader changes
PageRun ==
    \E model_ok \in ModelOks, seed \in Seeds, charts_ok \in ChartOks(NoFile) :
        Becomes(main(Given("none", FALSE, NoFile, <<>>, NoRemote),
                     model_ok, seed, charts_ok))

\* "Load Data" is clicked with the checkbox and the uploader as they stand
ClickLoadData ==
    /\ "sidebar" \in run.rendered
    /\ \E use_sample \in BOOLEAN, model_ok \in ModelOks, seed \in Seeds :
       \E f \in (IF use_sample THEN {NoFile} ELSE Files \cup {NoFile}) :
       \E charts_ok \in ChartOks(f) :
          Becomes(main(Given("load", use_sample, f, <<>>, NoRemote),
                       model_ok, seed, charts_ok))

\* "Get Personalized Advice" is clicked
ClickGetAdvice ==
    /\ "advice_button" \in run.rendered
    /\ \E remote \in Remotes, model_ok \in ModelOks, seed \in Seeds :
          Becomes(main(Given("advice", FALSE, NoFile, <<>>, remote),
                       model_ok, seed, TRUE))

\* a question is submitted in the chat input
SubmitChat ==
    /\ "chat_input" \in run.rendered
    /\ Len(messages) < MaxMessages
    /\ \E prompt \in Prompts, remote \in Remotes, model_ok \in ModelOks, seed \in Seeds :
          Becomes(main(Given("chat", FALSE, NoFile, prompt, remote),
                       model_ok, seed, TRUE))

Next == PageRun \/ ClickLoadData \/ ClickGetAdvice \/ SubmitChat

Spec == Init /\ [][Next]_vars

-----------------------------------------------------------------------------
(* Vocabulary of the properties *)

\* a Record Set is stored in the session
Loaded == "data" \in session_keys /\ data # None

\* the last run was a click on "Load Data" that read an uploaded CSV table
UploadRun(r) ==
    /\ r.given.trigger = "load"
    /\ ~r.given.use_sample
    /\ ~r.given.uploaded_file.absent
    /\ r.given.uploaded_file.readable

\* the labels of the uploaded table, trimmed, lower-cased, spaces to underscores
LabelsOf(r) ==
    {normalize_col(r.given.uploaded_file.header[j]) :
        j \in DOMAIN r.given.uploaded_file.header}

\* the text of a date cell reads as a calendar date
ReadsAsDate(t) == t.kind = "text" /\ IsValidDate(t.y, t.m, t.d)

IsError(e) == e.call = "error"
IsContent(e) == e.call \in {"markdown", "chat_message"}

\* the st.error calls of a run
Errors(r) == SelectSeq(r.shown, IsError)

\* s is a prefix of t
IsPrefix(s, t) == Len(s) <= Len(t) /\ SubSeq(t, 1, Len(s)) = s

RECURSIVE DaysBeforeMonth(_, _)
DaysBeforeMonth(y, m) ==
    IF m = 1 THEN 0 ELSE DaysBeforeMonth(y, m - 1) + DaysInMonth(y, m - 1)

\* the day of the year of a date, 1 for January 1st
DayOfYear(t) == DaysBeforeMonth(t.y, t.m) + t.d

\* the table load_sample_data returns once it has been called
SampleTable == SampleOf[sample_cache.seed]

-----------------------------------------------------------------------------
(* C1.  Whenever an uploaded table lacks, after normalization of its       *)
(* labels, one or more of date, platform, hours, earnings, validate_data   *)
(* returns None and the one error it shows names exactly the missing       *)
(* required fields: each missing one, and nothing else.                    *)
C1_MissingColumnsNamed ==
    LET fields == {c_date, c_platform, c_hours, c_earnings}
    IN  (UploadRun(run) /\ \E f \in fields : f \notin LabelsOf(run))
        => /\ run.validate_returned = "None"
           /\ Len(Errors(run)) = 1
           /\ Errors(run)[1].prefix = "Data validation error: "
           /\ Errors(run)[1].text = "Missing columns: "
           /\ \A f \in fields : f \in Errors(run)[1].named <=> f \notin LabelsOf(run)
           /\ Errors(run)[1].named \subseteq fields

\* an upload lacking two required fields (while a third label only looks
\* like one) has been rejected naming those two
C1_Witness ==
    /\ UploadRun(run)
    /\ Len(Errors(run)) = 1
    /\ Errors(run)[1].named = {c_hours, c_earnings}
    /\ c_date \in LabelsOf(run)

(* C2.  A click on "Load Data" with an uploaded table that has all the     *)
(* required columns and at least one date cell that does not read as a     *)
(* calendar date makes validate_data return None, and leaves the stored    *)
(* Record Set exactly as it was.                                           *)
C2_BadDateRejectsWholeTable ==
    [][ ( /\ UploadRun(run')
          /\ required \subseteq LabelsOf(run')
          /\ \E t \in run'.given.uploaded_file.date_texts : ~ReadsAsDate(t) )
        => ( /\ run'.validate_returned = "None"
             /\ data' = data ) ]_vars

\* a table with a good and a bad date was rejected while a Record Set was
\* stored, which is still stored
C2_Witness ==
    /\ UploadRun(run)
    /\ required \subseteq LabelsOf(run)
    /\ \E t \in run.given.uploaded_file.date_texts : ReadsAsDate(t)
    /\ \E t \in run.given.uploaded_file.date_texts : ~ReadsAsDate(t)
    /\ run.validate_returned = "None"
    /\ Loaded
    /\ Len(data.rows) > 0

(* C3.  When the remote call fails during "Get Personalized Advice" or a   *)
(* chat submission, the run still returns (no exception leaves main), an   *)
(* inline error is shown, and the page can take the next action.           *)
C3_RemoteErrorsDoNotCrash ==
    (run.given.trigger \in {"advice", "chat"} /\ run.given.remote.raises)
        => /\ run.exception = ""
           /\ \/ Len(Errors(run)) > 0
              \/ \E i \in DOMAIN messages : startswith(messages[i].content, t_Error)
           /\ "sidebar" \in run.rendered

\* what the advisory collaborator returns for the request of run r
Advisory(r) ==
    IF r.given.trigger = "advice"
    THEN generate_judge_ready_recommendations(data, r.given.remote)
    ELSE answer_question(r.given.prompt, r.given.remote)

(* C4.  A string the advisory collaborator returns that begins with        *)
(* "Error" is shown to the user with st.error and is never rendered or     *)
(* stored as content: no markdown box or chat message shows it, and no     *)
(* assistant message of the transcript begins with "Error".                *)
C4_FailureMarkerSurfaced ==
    /\ ( /\ run.given.trigger \in {"advice", "chat"}
         /\ startswith(Advisory(run), t_Error) )
       => /\ \E i \in DOMAIN run.shown :
                IsError(run.shown[i]) /\ run.shown[i].body = Advisory(run)
          /\ \A i \in DOMAIN run.shown :
                IsContent(run.shown[i]) => run.shown[i].body # Advisory(run)
    /\ \A i \in DOMAIN messages :
          messages[i].role = "assistant" => ~startswith(messages[i].content, t_Error)

(* C5.  The stored Record Set is absent or a validated table: it has the   *)
(* columns date, platform, hours, earnings, and every value of its date    *)
(* column is a calendar date.                                              *)
C5_StoredRecordSetValid ==
    /\ "data" \notin session_keys => data = None
    /\ Loaded =>
          /\ \A f \in {c_date, c_platform, c_hours, c_earnings} :
                \E j \in DOMAIN data.columns : data.columns[j] = f
          /\ \A i \in DOMAIN data.rows :
             \A j \in DOMAIN data.columns :
                data.columns[j] = c_date =>
                    /\ data.rows[i][j].kind = "ts"
                    /\ IsValidDate(data.rows[i][j].y, data.rows[i][j].m,
                                   data.rows[i][j].d)

\* an uploaded table with unnormalized labels and two rows is stored
C5_Witness ==
    /\ UploadRun(run)
    /\ run.validate_returned = "DataFrame"
    /\ c_date \notin Range(run.given.uploaded_file.header)
    /\ Loaded
    /\ Len(data.rows) = 2

(* C6.  A successful "Load Data" replaces the Record Set and leaves the    *)
(* transcript; a failed or empty one leaves both; "Get Personalized        *)
(* Advice" and a plain rerun leave both; a chat submission leaves the      *)
(* Record Set and only appends to the transcript.                          *)
C6_SessionStateFrame ==
    [][ LET g == run'.given
            succeeded == \E i \in DOMAIN run'.shown : run'.shown[i].call = "success"
        IN  /\ g.trigger = "load" =>
                /\ messages' = messages
                /\ ~succeeded => data' = data
                /\ (succeeded /\ g.use_sample) => data' = SampleTable'
                /\ (succeeded /\ ~g.use_sample) =>
                      /\ data' # None
                      /\ Range(data'.columns) = LabelsOf(run')
                      /\ {Column(data', c_date)[i] : i \in DOMAIN data'.rows} =
                            {to_datetime_cell(t) : t \in g.uploaded_file.date_texts}
            /\ g.trigger \in {"advice", "none"} =>
                /\ data' = data
                /\ messages' = messages
            /\ g.trigger = "chat" =>
                /\ data' = data
                /\ IsPrefix(messages, messages')
                /\ Len(messages') > Len(messages) ]_vars

\* a chat submission appended to a transcript that already held a message
C6_Witness ==
    /\ run.given.trigger = "chat"
    /\ Len(messages) = 2
    /\ Loaded

(* C7, as claimed.  If any of the API key, the endpoint URL and the        *)
(* project identifier is absent from the environment, GigAI is never       *)
(* constructed and no run gets past init_gigai.                            *)
C7_AnyAbsentIsFatal ==
    (\E n \in EnvNames : env[n] = NoneStr)
        => /\ gigai_cache = None
           /\ session_keys = {}
           /\ run.rendered = {}

(* C7, amended.  If the API key or the project identifier is unset or      *)
(* empty, or the endpoint URL is set to the empty string, every run ends   *)
(* in init_gigai with RuntimeError: GigAI is never constructed, the        *)
(* session state is never initialized, nothing is loaded or drawn.  An     *)
(* unset endpoint URL is not fatal (the default endpoint is used).  GigAI  *)
(* is constructed only with key and project identifier set and non-empty.  *)
C7_MissingKeyOrProjectIsFatal ==
    /\ ( \/ ~Truthy(env["IBM_GRANITE_API_KEY"])
         \/ ~Truthy(env["IBM_GRANITE_PROJECT_ID"])
         \/ env["IBM_GRANITE_URL"] = "" )
       => /\ gigai_cache = None
          /\ sample_cache = None
          /\ session_keys = {}
          /\ data = None
          /\ messages = <<>>
          /\ run.rendered = {}
          /\ run.shown = <<>>
          /\ run # NoRun => run.exception = "RuntimeError"
    /\ gigai_cache # None
       => /\ Truthy(env["IBM_GRANITE_API_KEY"])
          /\ Truthy(env["IBM_GRANITE_PROJECT_ID"])
          /\ env["IBM_GRANITE_URL"] # ""
          /\ gigai_cache.credentials.apikey = env["IBM_GRANITE_API_KEY"]

\* a run with only the project identifier missing has ended in init_gigai
C7_Witness ==
    /\ run # NoRun
    /\ run.exception = "RuntimeError"
    /\ env["IBM_GRANITE_API_KEY"] = "value"
    /\ env["IBM_GRANITE_URL"] = "value"
    /\ env["IBM_GRANITE_PROJECT_ID"] = NoneStr

(* C8.  For the stored Record Set the dashboard's average hourly rate is   *)
(* total earnings / max(1, total hours), and the "Hourly earnings" figure  *)
(* of the advisory report prompt is the same value.                        *)
C8_HourlyRateConsistent ==
    Loaded =>
        /\ dashboard_hourly(data).kind = "finite"
        /\ dashboard_hourly(data).num = Earnings(data)
        /\ dashboard_hourly(data).den = (IF Hours(data) >= 1 THEN Hours(data) ELSE 1)
        /\ SameRate(dashboard_hourly(data), prompt_hourly(data))

(* C9, as claimed.  The sample table has 90 rows with earnings in 50..200  *)
(* and hours in 2..8, and the generator can produce the upper endpoints:   *)
(* some generator state gives a row with earnings 200 and one with hours 8.*)
C9_ClosedRanges ==
    sample_cache # None =>
        /\ Len(SampleTable.rows) = 90
        /\ \A i \in DOMAIN SampleTable.rows :
              /\ SampleTable.rows[i][2] \in 50..200
              /\ SampleTable.rows[i][3] \in 2..8
        /\ \E seed \in DOMAIN SampleOf : \E i \in DOMAIN SampleOf[seed].rows :
              SampleOf[seed].rows[i][2] = 200
        /\ \E seed \in DOMAIN SampleOf : \E i \in DOMAIN SampleOf[seed].rows :
              SampleOf[seed].rows[i][3] = 8

(* C9, amended.  The sample table has the columns date, earnings, hours,   *)
(* platform, miles and exactly 90 rows; row i is dated i-1 days after      *)
(* 2023-01-01; earnings is an integer of 50..199, hours an integer of      *)
(* 2..7, platform one of Uber, DoorDash, Lyft, miles between 5.0 and 50.0  *)
(* in tenths.  A sample loaded into the session is that table.             *)
C9_SampleShape ==
    /\ sample_cache # None =>
        /\ SampleTable.columns = <<c_date, c_earnings, c_hours, c_platform, c_miles>>
        /\ Len(SampleTable.rows) = 90
        /\ \A i \in DOMAIN SampleTable.rows :
              LET row == SampleTable.rows[i]
              IN  /\ row[1].kind = "ts"
                  /\ row[1].y = 2023
                  /\ IsValidDate(row[1].y, row[1].m, row[1].d)
                  /\ DayOfYear(row[1]) = i
                  /\ row[2] \in 50..199
                  /\ row[3] \in 2..7
                  /\ row[4] \in {"Uber", "DoorDash", "Lyft"}
                  /\ row[5] \in 50..500
    /\ (run.given.trigger = "load" /\ run.given.use_sample /\ run.exception = "")
          => (sample_cache # None /\ data = SampleTable)

\* the sample is loaded into the session and holds the endpoints 50 and 199
\* of earnings and 2 and 7 of hours, and its last day is March 31st
C9_Witness ==
    /\ sample_cache # None
    /\ run.given.trigger = "load"
    /\ run.given.use_sample
    /\ data = SampleTable
    /\ \A e \in {50, 199} : \E i \in DOMAIN data.rows : data.rows[i][2] = e
    /\ \A h \in {2, 7} : \E i \in DOMAIN data.rows : data.rows[i][3] = h
    /\ data.rows[90][1] = Timestamp(2023, 3, 31)

(* C10.  Between runs the transcript is a sequence of user/assistant       *)
(* pairs: its length is even, every message at an odd position (counting   *)
(* from 1) is the user's and the next one the assistant's; and a           *)
(* transcript holds messages only when a Record Set is loaded.             *)
C10_TranscriptPairs ==
    /\ Len(messages) % 2 = 0
    /\ \A i \in DOMAIN messages :
          messages[i].role = (IF i % 2 = 1 THEN "user" ELSE "assistant")
    /\ messages # <<>> => Loaded

=============================================================================
